---- MODULE Spec2Model ----
(***************************************************************************)
(* A model of the nozzle flow-control primitive (Nozzle[T] with Close,     *)
(* DoBool/DoError, the tick loop, calculate, close/open, Wait).            *)
(*                                                                         *)
(* Granularity: every section of code that runs between mut.Lock() and     *)
(* mut.Unlock() is one atomic step, except calculate(), which holds the    *)
(* mutex while the OnStateChange callback runs and is therefore split at   *)
(* the callback.  Code outside the mutex (the caller's callback, the       *)
(* statements of Close after the unlock, the select of the tick loop) is   *)
(* one step per statement.                                                 *)
(***************************************************************************)
EXTENDS Integers, Sequences, FiniteSets, TLC

(***************************************************************************)
(* Bounds of the model.                                                    *)
(***************************************************************************)
\* goroutines calling DoBool / DoError
NumCallers == 2
\* goroutines calling Close
NumClosers == 2
\* goroutines calling Wait
NumWaiters == 1
\* admission calls started in one run of Spec
MaxCalls == 2
\* timer ticks delivered in one run of Spec
MaxTicks == 2
\* largest counter value drawn by the wide initial states
MaxTally == 29
\* ticks (and calls) of a run of SpecClosing
MaxClosings == 7
\* largest Options.Interval handed to New
MaxInterval == 2

Callers == 1..NumCallers
Closers == 1..NumClosers

(***************************************************************************)
(* Program constants.                                                      *)
(***************************************************************************)
maxDecreaseBy == 1000000000

\* math.MaxInt64 / math.MinInt64.  The model's integers are 32 bits wide
\* (the widest the checker evaluates); 2 * maxDecreaseBy fits in both widths,
\* so close() and open() compute the same values at either width.
MaxInt64 == 2147483647
MinInt64 == (-MaxInt64) - 1

Opening == "opening"
Closing == "closing"

(***************************************************************************)
(* Integer helpers.                                                        *)
(***************************************************************************)
\* Go's integer division truncates toward zero; MinInt64 / -1 wraps around.
quoPos(a, b) ==
    \* b > 0
    IF a >= 0 THEN a \div b
    ELSE IF a % b = 0 THEN a \div b
    ELSE (a \div b) + 1

quo(a, b) ==
    IF b > 0 THEN quoPos(a, b)
    ELSE IF b = MinInt64 THEN (IF a = MinInt64 THEN 1 ELSE 0)
    ELSE IF a = MinInt64 /\ b = -1 THEN MinInt64
    ELSE -quoPos(a, -b)

clampNoFloor(i) ==
    IF i > 100 THEN 100 ELSE i

clamp(i) ==
    IF i < 0 THEN 0
    ELSE IF i > 100 THEN 100
    ELSE i

safeMultiplyToMax(a, b) ==
    IF a = 0 \/ b = 0 THEN 0
    ELSE IF a > 0 /\ b > 0 /\ a > quo(MaxInt64, b) THEN MaxInt64
    ELSE IF a < 0 /\ b < 0 /\ a < quo(MaxInt64, b) THEN MaxInt64
    ELSE IF a > 0 /\ b < 0 /\ b < quo(MinInt64, a) THEN MaxInt64
    ELSE IF a < 0 /\ b > 0 /\ a < quo(MinInt64, b) THEN MaxInt64
    ELSE a * b

\* safeMultiply()
safeMultiply(a, b) ==
    IF a = 0 \/ b = 0 THEN 0
    ELSE IF a > 0 /\ b > 0 /\ a > quo(MaxInt64, b) THEN MaxInt64
    ELSE IF a < 0 /\ b < 0 /\ a < quo(MaxInt64, b) THEN MaxInt64
    ELSE IF a > 0 /\ b < 0 /\ b < quo(MinInt64, a) THEN MinInt64
    ELSE IF a < 0 /\ b > 0 /\ a < quo(MinInt64, b) THEN MinInt64
    ELSE a * b

(***************************************************************************)
(* float64 arithmetic.  The code computes its percentages as               *)
(*     int64((float64(x) / float64(x+y)) * 100)                            *)
(* i.e. an IEEE-754 binary64 division rounded to nearest-even, a binary64  *)
(* multiplication rounded to nearest-even, and a truncation.  A binary64   *)
(* significand has 53 bits, more than an integer of the model holds, so a  *)
(* significand is a sequence of 13-bit limbs, least significant first.     *)
(***************************************************************************)
RECURSIVE Pow2(_)
Pow2(k) == IF k = 0 THEN 1 ELSE 2 * Pow2(k - 1)

MantBits == 53
LimbBits == 13
LimbBase == Pow2(LimbBits)

\* number of bits of a non-negative integer
RECURSIVE BitLen(_)
BitLen(x) == IF x = 0 THEN 0 ELSE 1 + BitLen(x \div 2)

\* the limbs of a non-negative integer
RECURSIVE IntNat(_)
IntNat(x) == IF x = 0 THEN << >> ELSE <<x % LimbBase>> \o IntNat(x \div LimbBase)

\* the integer of a limb sequence that fits an integer
RECURSIVE NatInt(_)
NatInt(s) == IF Len(s) = 0 THEN 0 ELSE s[1] + LimbBase * NatInt(Tail(s))

\* drop the zero limbs at the top
RECURSIVE NatTrim(_)
NatTrim(s) ==
    IF Len(s) = 0 \/ s[Len(s)] # 0 THEN s
    ELSE NatTrim(SubSeq(s, 1, Len(s) - 1))

NatBitLen(s) ==
    IF Len(s) = 0 THEN 0 ELSE LimbBits * (Len(s) - 1) + BitLen(s[Len(s)])

\* s * m + carry for 0 <= m <= LimbBase
RECURSIVE NatMulAdd(_, _, _)
NatMulAdd(s, m, carry) ==
    IF Len(s) = 0 THEN IntNat(carry)
    ELSE LET t == s[1] * m + carry
         IN  <<t % LimbBase>> \o NatMulAdd(Tail(s), m, t \div LimbBase)

NatMul(s, m) == NatTrim(NatMulAdd(s, m, 0))

NatInc(s) == NatMulAdd(s, 1, 1)

\* s divided by 0 < d < 2^18: quotient limbs and remainder, from the top limb
RECURSIVE NatDivFrom(_, _, _)
NatDivFrom(s, d, r) ==
    IF Len(s) = 0 THEN [q |-> << >>, r |-> r]
    ELSE LET cur  == r * LimbBase + s[Len(s)]
             rest == NatDivFrom(SubSeq(s, 1, Len(s) - 1), d, cur % d)
         IN  [q |-> Append(rest.q, cur \div d), r |-> rest.r]

NatDiv(s, d) ==
    LET x == NatDivFrom(s, d, 0) IN [q |-> NatTrim(x.q), r |-> x.r]

\* s * 2^k
NatShl(s, k) ==
    IF Len(s) = 0 THEN s
    ELSE [i \in 1..(k \div LimbBits) |-> 0] \o NatMul(s, Pow2(k % LimbBits))

\* floor(s / 2^k)
NatShr(s, k) ==
    IF k \div LimbBits >= Len(s) THEN << >>
    ELSE NatDiv(SubSeq(s, (k \div LimbBits) + 1, Len(s)), Pow2(k % LimbBits)).q

\* s mod 2^k for k <= LimbBits
NatLow(s, k) == IF Len(s) = 0 THEN 0 ELSE s[1] % Pow2(k)

\* A float is [m |-> significand of 53 bits, e |-> exponent of its last bit]:
\* the value m * 2^e.  Zero has the empty significand.
\* Round to nearest, ties to even: kept is the truncated significand, half
\* says whether the part cut off is below (-1), equal to (0) or above (1)
\* half a unit of the last kept place.
RoundNearestEven(kept, e, half) ==
    LET up  == half = 1 \/ (half = 0 /\ kept[1] % 2 = 1)
        inc == NatInc(kept)
    IN  IF ~up THEN [m |-> kept, e |-> e]
        ELSE IF NatBitLen(inc) > MantBits
             THEN [m |-> NatShr(inc, 1), e |-> e + 1]
             ELSE [m |-> inc, e |-> e]

\* float64(a) / float64(n) for integers 0 <= a, 0 < n < 2^17
FloatDiv(a, n) ==
    IF a = 0 THEN [m |-> << >>, e |-> 0]
    ELSE LET \* sh: the shift that brings a / n into [1, 2)
             la   == BitLen(a)
             ln   == BitLen(n)
             low  == IF ln >= la THEN a * Pow2(ln - la) < n
                                 ELSE a < n * Pow2(la - ln)
             sh   == (ln - la) + (IF low THEN 1 ELSE 0)
             s    == (MantBits - 1) + sh
             d    == NatDiv(NatShl(IntNat(a), s), n)
             half == IF 2 * d.r > n THEN 1
                     ELSE IF 2 * d.r = n THEN 0
                     ELSE -1
         IN  IF d.r = 0 THEN [m |-> d.q, e |-> -s]
             ELSE RoundNearestEven(d.q, -s, half)

\* x * float64(k) for a float x and an integer 0 < k <= LimbBase
FloatMulInt(x, k) ==
    IF Len(x.m) = 0 THEN x
    ELSE LET p     == NatMul(x.m, k)
             extra == NatBitLen(p) - MantBits
             kept  == NatShr(p, extra)
             drop  == NatLow(p, extra)
             mid   == Pow2(extra - 1)
             half  == IF drop > mid THEN 1 ELSE IF drop = mid THEN 0 ELSE -1
         IN  IF extra = 0 THEN [m |-> p, e |-> x.e]
             ELSE IF drop = 0 THEN [m |-> kept, e |-> x.e + extra]
             ELSE RoundNearestEven(kept, x.e + extra, half)

\* int64(x) for a float 0 <= x < 2^31: truncation toward zero
FloatTrunc(x) ==
    IF Len(x.m) = 0 THEN 0
    ELSE IF x.e >= 0 THEN NatInt(NatShl(x.m, x.e))
    ELSE NatInt(NatShr(x.m, -x.e))

\* int64((float64(part) / float64(whole)) * 100)
FloatPercent(part, whole) == FloatTrunc(FloatMulInt(FloatDiv(part, whole), 100))

\* floor(part * 100 / whole), in integer arithmetic
IntPercent(part, whole) == (part * 100) \div whole

\* The percentages the model can ask for, computed once.
MaxWhole == 2 * (MaxTally + MaxCalls + 1)

PercentTable == [whole \in 1..MaxWhole |-> [part \in 0..whole |-> FloatPercent(part, whole)]]

Percent(part, whole) == PercentTable[whole][part]

(***************************************************************************)
(* The state of one Nozzle and of the goroutines that use it.              *)
(***************************************************************************)
VARIABLES
    \* fields of Nozzle
    flowRate, decreaseBy, successes, failures, allowed, blocked, state, closed,
    \* Options.AllowedFailurePercent, and whether Options.OnStateChange is set
    allowedFailurePercent, onStateChange,
    \* Options.Interval, and what the call of New came to: "none" (not yet
    \* called), "nozzle" (returned one) or "panic"
    interval, newResult,
    \* start: TRUE when time.Since(n.start) >= Options.Interval
    elapsed,
    \* mut: "free", or "loop" while calculate() keeps it across the callback
    mut,
    \* ticker: "nil" or "made" (the channel Wait creates)
    ticker,
    \* done: TRUE once the channel is closed
    done,
    \* timeTicker: [c |-> ticks buffered in timeTicker.C (0 or 1), stopped |-> BOOLEAN]
    timeTicker,
    \* once: "fresh", "running" (a Close is inside once.Do) or "done"
    once,
    \* the tick() goroutine: "unstarted", "select", "calculate", "callback",
    \* "exited", "panicked" (a panic of OnStateChange left it)
    loopPc,
    \* the StateSnapshot the running OnStateChange callback was given
    snapshot,
    \* goroutines in DoBool / DoError
    callerPc, callerResult,
    \* goroutines in Close: "idle", "lock", "closeDone", "stop", "wait",
    \* "returned" (with nil), "panicked"; closeWaited: those that found
    \* once.Do running
    closePc, closeWaited,
    \* goroutines in Wait
    waitPc,
    \* bookkeeping of the run: admission calls and timer ticks still to come,
    \* how often each shutdown statement of Close ran, and whether a
    \* goroutine panicked (close of a closed channel); lateCalls: admission
    \* calls begun after a Close had returned
    callsLeft, ticksLeft, shutdowns, panicked, lateCalls,
    \* closings: how many adjustments calculate() has made since New when
    \* every one of them closed, -1 otherwise
    closings,
    \* openings: how many adjustments calculate() has made since the first
    \* state of the run when every one of them opened, -1 otherwise or when
    \* the run does not count them
    openings,
    \* a call of safeMultiply on its own: the operands, the value returned
    \* and where the call is ("idle", "called", "returned")
    mulA,
    mulB,
    mulResult,
    mulPc

nozzleVars == <<flowRate, decreaseBy, successes, failures, allowed, blocked, state, closed>>
configVars == <<allowedFailurePercent, onStateChange, interval, newResult>>
counterVars == <<successes, failures, allowed, blocked>>
loopVars == <<loopPc, snapshot, closings, openings>>
callerVars == <<callerPc, callerResult, lateCalls>>
closeVars == <<closePc, closeWaited>>
lifeVars == <<done, timeTicker, once, shutdowns, panicked>>
mathVars == <<mulA, mulB, mulResult, mulPc>>

vars == <<flowRate, decreaseBy, successes, failures, allowed, blocked, state, closed,
          allowedFailurePercent, onStateChange, interval, newResult, elapsed, mut,
          ticker, done,
          timeTicker, once, loopPc, snapshot, callerPc, callerResult,
          closePc, closeWaited, waitPc, callsLeft, ticksLeft,
          shutdowns, panicked, lateCalls, closings, openings,
          mulA, mulB, mulResult, mulPc>>

Waiters == 1..NumWaiters

\* the goroutines that can be in Wait: those of Waiters call it in the runs
\* of Spec, one more is parked in it in the runs of SpecWaiters
Sleepers == 1..(NumWaiters + 1)

NoSnapshot == [none |-> TRUE]

\* the failure ceilings a run of Spec is configured with
Ceilings == {0, 50}

(***************************************************************************)
(* New: the state after construction.  start is left at the zero time, so  *)
(* more than one interval has elapsed for the first tick.                  *)
(***************************************************************************)
Fresh ==
    /\ flowRate = 100
    /\ decreaseBy = 0
    /\ successes = 0 /\ failures = 0 /\ allowed = 0 /\ blocked = 0
    /\ state = Opening
    /\ closed = FALSE
    /\ elapsed = TRUE
    /\ mut = "free"
    /\ ticker = "nil"
    /\ done = FALSE
    /\ timeTicker = [c |-> 0, stopped |-> FALSE]
    /\ once = "fresh"
    /\ loopPc = "select"
    /\ snapshot = NoSnapshot
    /\ newResult = "nozzle"

\* nobody calls safeMultiply on its own
Unmultiplied == mulA = 0 /\ mulB = 0 /\ mulResult = 0 /\ mulPc = "idle"

Bystanders ==
    /\ Unmultiplied
    /\ callerPc = [c \in Callers |-> "idle"]
    /\ callerResult = [c \in Callers |-> "none"]
    /\ closePc = [k \in Closers |-> "idle"]
    /\ closeWaited = {}
    /\ waitPc = [w \in Sleepers |-> "idle"]
    /\ shutdowns = [closed |-> 0, done |-> 0, stop |-> 0]
    /\ panicked = FALSE
    /\ lateCalls = 0

Init ==
    /\ Fresh
    /\ Bystanders
    /\ closings = 0
    /\ openings = -1
    /\ interval = 1
    /\ allowedFailurePercent \in Ceilings
    /\ onStateChange \in BOOLEAN
    /\ callsLeft = MaxCalls
    /\ ticksLeft = MaxTicks

(***************************************************************************)
(* The pure parts of the methods.                                          *)
(***************************************************************************)
\* failureRate()
failureRate(f, s) ==
    IF f = 0 /\ s = 0 THEN 0 ELSE Percent(f, f + s)

\* successRate()
successRate(fr, f, s) ==
    IF fr = 0 THEN 0
    ELSE IF f = 0 /\ s = 0 THEN 100
    ELSE 100 - failureRate(f, s)

\* SuccessRate(): the accessor, under the read lock
SuccessRate(fr, f, s) ==
    IF fr = 0 THEN 0
    ELSE IF f = 0 /\ s = 0 THEN 100
    ELSE 100 - failureRate(f, s)

\* FailureRate(): the accessor, under the read lock
FailureRate(fr, f, s) ==
    IF fr = 0 THEN 0
    ELSE IF f = 0 /\ s = 0 THEN 0
    ELSE failureRate(f, s)

allowRateEmptyFull(al, bl) ==
    IF al # 0 THEN Percent(al, al + bl) ELSE 100

\* DoBool / DoError: allowRate
allowRate(al, bl) ==
    IF al # 0 THEN Percent(al, al + bl) ELSE 0

allowInverted(fr, al, bl) ==
    IF fr = 100 THEN TRUE
    ELSE IF fr > 0 THEN allowRate(al, bl) > fr
    ELSE FALSE

\* DoBool / DoError: allow
allow(fr, al, bl) ==
    IF fr = 100 THEN TRUE
    ELSE IF fr > 0 THEN allowRate(al, bl) < fr
    ELSE FALSE

DecideIgnoringClosed(cl, fr, al, bl) ==
    IF allow(fr, al, bl) THEN "admit" ELSE "blocked"

\* DoBool / DoError: the branch taken under the mutex
Decide(cl, fr, al, bl) ==
    IF cl THEN "closed"
    ELSE IF allow(fr, al, bl) THEN "admit"
    ELSE "blocked"

closeUncapped(fr, db) ==
    LET mult == IF db > -1 THEN -1 ELSE db
    IN  [flowRate |-> clamp(fr + mult), decreaseBy |-> safeMultiply(mult, 2)]

closeSteady(fr, db) ==
    LET mult == IF db > -1 THEN -1 ELSE db
    IN  [flowRate |-> clamp(fr + mult), decreaseBy |-> mult]

closeKeepMagnitude(fr, db) ==
    LET mult == IF db > 0 THEN -db ELSE IF db = 0 THEN -1 ELSE db
        nextDecrease == safeMultiply(mult, 2)
    IN  [flowRate   |-> clamp(fr + mult),
         decreaseBy |-> IF nextDecrease < -maxDecreaseBy THEN -maxDecreaseBy
                        ELSE nextDecrease]

\* close()
close(fr, db) ==
    LET mult == IF db > -1 THEN -1 ELSE db
        nextDecrease == safeMultiply(mult, 2)
    IN  [flowRate   |-> clamp(fr + mult),
         decreaseBy |-> IF nextDecrease < -maxDecreaseBy THEN -maxDecreaseBy
                        ELSE nextDecrease]

openSteady(fr, db) ==
    IF fr = 100 THEN [flowRate |-> fr, decreaseBy |-> db]
    ELSE LET mult == IF db < 1 THEN 1 ELSE db
         IN  [flowRate |-> clamp(fr + mult), decreaseBy |-> mult]

openUnreset(fr, db) ==
    IF fr = 100 THEN [flowRate |-> fr, decreaseBy |-> db]
    ELSE LET nextDecrease == safeMultiply(db, 2)
         IN  [flowRate   |-> clamp(fr + db),
              decreaseBy |-> IF nextDecrease > maxDecreaseBy THEN maxDecreaseBy
                             ELSE nextDecrease]

openNoEarlyReturn(fr, db) ==
    LET mult == IF db < 1 THEN 1 ELSE db
        nextDecrease == safeMultiply(mult, 2)
    IN  [flowRate   |-> clamp(fr + mult),
         decreaseBy |-> IF nextDecrease > maxDecreaseBy THEN maxDecreaseBy
                        ELSE nextDecrease]

\* open()
open(fr, db) ==
    IF fr = 100 THEN [flowRate |-> fr, decreaseBy |-> db]
    ELSE LET mult == IF db < 1 THEN 1 ELSE db
             nextDecrease == safeMultiply(mult, 2)
         IN  [flowRate   |-> clamp(fr + mult),
              decreaseBy |-> IF nextDecrease > maxDecreaseBy THEN maxDecreaseBy
                             ELSE nextDecrease]

closesInclusive(f, s, ceiling) == failureRate(f, s) >= ceiling

\* calculate(): whether this tick closes
closes(f, s, ceiling) == failureRate(f, s) > ceiling

\* sync.Once.Do: what a caller does on entry
OnceEnterUnguarded(o) == "run"

OnceEnter(o) ==
    IF o = "fresh" THEN "run"
    ELSE IF o = "running" THEN "wait"
    ELSE "skip"

(***************************************************************************)
(* DoBool and DoError.                                                     *)
(***************************************************************************)
\* the return values of a call that is turned away
Denied(kind, decision) ==
    IF kind = "DoBool" THEN "false"
    ELSE IF decision = "closed" THEN "ErrClosed"
    ELSE "ErrBlocked"

tallySwapped(decision, al, bl) ==
    [allowed |-> IF decision = "blocked" THEN al + 1 ELSE al,
     blocked |-> IF decision = "admit" THEN bl + 1 ELSE bl]

tallyAdmittedOnly(decision, al, bl) ==
    [allowed |-> IF decision = "admit" THEN al + 1 ELSE al, blocked |-> bl]

\* DoBool / DoError: n.allowed++ or n.blocked++
tally(decision, al, bl) ==
    [allowed |-> IF decision = "admit" THEN al + 1 ELSE al,
     blocked |-> IF decision = "blocked" THEN bl + 1 ELSE bl]

AdmitHolding(c, kind) ==
    /\ callerPc[c] = "idle"
    /\ callsLeft > 0
    /\ mut = "free"
    /\ callsLeft' = callsLeft - 1
    /\ lateCalls' = IF \E k \in Closers : closePc[k] = "returned"
                    THEN lateCalls + 1 ELSE lateCalls
    /\ LET decision == Decide(closed, flowRate, allowed, blocked)
       IN  /\ allowed' = tally(decision, allowed, blocked).allowed
           /\ blocked' = tally(decision, allowed, blocked).blocked
           /\ mut' = IF decision = "admit" THEN "caller" ELSE "free"
           /\ callerPc' = [callerPc EXCEPT ![c] =
                              IF decision = "admit" THEN "callback" ELSE "idle"]
           /\ callerResult' = [callerResult EXCEPT ![c] =
                              IF decision = "admit" THEN "none" ELSE Denied(kind, decision)]
    /\ UNCHANGED <<flowRate, decreaseBy, successes, failures, state, closed>>
    /\ UNCHANGED <<mathVars, configVars, elapsed, ticker, lifeVars, loopVars, closeVars,
                   waitPc, ticksLeft>>

\* from mut.Lock() to the mut.Unlock() of the branch taken
Admit(c, kind) ==
    /\ callerPc[c] = "idle"
    /\ callsLeft > 0
    /\ mut = "free"
    /\ callsLeft' = callsLeft - 1
    /\ lateCalls' = IF \E k \in Closers : closePc[k] = "returned"
                    THEN lateCalls + 1 ELSE lateCalls
    /\ LET decision == Decide(closed, flowRate, allowed, blocked)
       IN  /\ allowed' = tally(decision, allowed, blocked).allowed
           /\ blocked' = tally(decision, allowed, blocked).blocked
           /\ callerPc' = [callerPc EXCEPT ![c] =
                              IF decision = "admit" THEN "callback" ELSE "idle"]
           /\ callerResult' = [callerResult EXCEPT ![c] =
                              IF decision = "admit" THEN "none" ELSE Denied(kind, decision)]
    /\ UNCHANGED <<flowRate, decreaseBy, successes, failures, state, closed>>
    /\ UNCHANGED <<mathVars, configVars, elapsed, mut, ticker, lifeVars, loopVars, closeVars,
                   waitPc, ticksLeft>>

\* each calling goroutine uses one of the two methods
Kind(c) == IF c % 2 = 1 THEN "DoBool" ELSE "DoError"

DoBool(c) == Kind(c) = "DoBool" /\ Admit(c, "DoBool")

DoError(c) == Kind(c) = "DoError" /\ Admit(c, "DoError")

\* the callback returns and success() or failure() runs under the mutex
Report(c) ==
    /\ callerPc[c] = "callback"
    /\ mut = "free"
    /\ \E ok \in BOOLEAN :
          /\ successes' = IF ok THEN successes + 1 ELSE successes
          /\ failures' = IF ok THEN failures ELSE failures + 1
          /\ callerResult' = [callerResult EXCEPT ![c] =
                IF Kind(c) = "DoBool" THEN (IF ok THEN "true" ELSE "false")
                ELSE (IF ok THEN "nil" ELSE "error")]
    /\ callerPc' = [callerPc EXCEPT ![c] = "idle"]
    /\ UNCHANGED <<flowRate, decreaseBy, allowed, blocked, state, closed, lateCalls>>
    /\ UNCHANGED <<mathVars, configVars, elapsed, mut, ticker, lifeVars, loopVars, closeVars,
                   waitPc, callsLeft, ticksLeft>>

\* the callback panics: the panic leaves DoBool / DoError before any report
CallbackPanic(c) ==
    /\ callerPc[c] = "callback"
    /\ callerPc' = [callerPc EXCEPT ![c] = "idle"]
    /\ callerResult' = [callerResult EXCEPT ![c] = "panic"]
    /\ UNCHANGED <<nozzleVars, lateCalls>>
    /\ UNCHANGED <<mathVars, configVars, elapsed, mut, ticker, lifeVars, loopVars, closeVars,
                   waitPc, callsLeft, ticksLeft>>

(***************************************************************************)
(* The timer, the clock and the tick() goroutine.                          *)
(***************************************************************************)
\* the runtime delivers a tick into timeTicker.C (capacity 1)
TimerFire ==
    /\ ~timeTicker.stopped
    /\ timeTicker.c = 0
    /\ ticksLeft > 0
    /\ timeTicker' = [timeTicker EXCEPT !.c = 1]
    /\ ticksLeft' = ticksLeft - 1
    /\ UNCHANGED <<nozzleVars, mathVars, configVars, elapsed, mut, ticker, done, once, shutdowns,
                   panicked, loopVars, callerVars, closeVars, waitPc, callsLeft>>

\* an interval has gone by since n.start
ClockAdvance ==
    /\ ~elapsed
    /\ elapsed' = TRUE
    /\ UNCHANGED <<nozzleVars, mathVars, configVars, mut, ticker, lifeVars, loopVars, callerVars,
                   closeVars, waitPc, callsLeft, ticksLeft>>

\* tick(): case <-n.timeTicker.C
LoopTakeTick ==
    /\ loopPc = "select"
    /\ timeTicker.c = 1
    /\ timeTicker' = [timeTicker EXCEPT !.c = 0]
    /\ loopPc' = "calculate"
    /\ UNCHANGED <<nozzleVars, mathVars, configVars, elapsed, mut, ticker, done, once, shutdowns,
                   panicked, snapshot, closings, openings, callerVars, closeVars, waitPc,
                   callsLeft, ticksLeft>>

\* tick(): case <-n.done
LoopExit ==
    /\ loopPc = "select"
    /\ done
    /\ loopPc' = "exited"
    /\ UNCHANGED <<nozzleVars, mathVars, configVars, elapsed, mut, ticker, lifeVars, snapshot,
                   closings, openings, callerVars, closeVars, waitPc, callsLeft,
                   ticksLeft>>

TickerSendDropped == UNCHANGED waitPc

TickerSendToAll ==
    waitPc' = [w \in Sleepers |->
                 IF ticker = "made" /\ waitPc[w] = "recv" THEN "returned" ELSE waitPc[w]]

\* calculate(): the non-blocking send on n.ticker wakes one parked Wait
TickerSend ==
    IF ticker = "made" /\ \E w \in Sleepers : waitPc[w] = "recv"
    THEN \E w \in Sleepers :
            /\ waitPc[w] = "recv"
            /\ waitPc' = [waitPc EXCEPT ![w] = "returned"]
    ELSE UNCHANGED waitPc

ResetOutcomesOnly ==
    /\ successes' = 0 /\ failures' = 0
    /\ UNCHANGED <<allowed, blocked>>
    /\ elapsed' = FALSE
    /\ TickerSend

\* reset() and the rest of calculate() after it
ResetAndSignal ==
    /\ successes' = 0 /\ failures' = 0 /\ allowed' = 0 /\ blocked' = 0
    /\ elapsed' = FALSE
    /\ TickerSend

changedStateOnly(fr0, st0, fr1, st1) == st1 # st0

\* calculate(): changed
changed(fr0, st0, fr1, st1) == fr1 # fr0 \/ st1 # st0

CalculateEager ==
    /\ loopPc = "calculate"
    /\ mut = "free"
    /\    LET closing  == closes(failures, successes, allowedFailurePercent)
                adj      == IF closing THEN close(flowRate, decreaseBy)
                                       ELSE open(flowRate, decreaseBy)
                newState == IF closing THEN Closing ELSE Opening
            IN  /\ flowRate' = adj.flowRate
                /\ decreaseBy' = adj.decreaseBy
                /\ state' = newState
                /\ closed' = closed
                /\ closings' = IF closing /\ closings >= 0 THEN closings + 1 ELSE -1
                /\ openings' = IF ~closing /\ openings >= 0 THEN openings + 1 ELSE -1
                /\ IF changed(flowRate, state, adj.flowRate, newState) /\ onStateChange
                   THEN /\ snapshot' = [FlowRate    |-> adj.flowRate,
                                        State       |-> newState,
                                        FailureRate |-> failureRate(failures, successes),
                                        SuccessRate |-> successRate(adj.flowRate, failures, successes),
                                        Allowed     |-> allowed,
                                        Blocked     |-> blocked]
                        /\ loopPc' = "callback"
                        /\ mut' = "loop"
                        /\ UNCHANGED <<counterVars, elapsed, waitPc>>
                   ELSE /\ ResetAndSignal
                        /\ loopPc' = "select"
                        /\ UNCHANGED <<mut, snapshot>>
    /\ UNCHANGED <<mathVars, configVars, ticker, lifeVars, callerVars, closeVars, callsLeft, ticksLeft>>

CalculateAsync ==
    /\ loopPc = "calculate"
    /\ mut = "free"
    /\ loopPc' = "select"
    /\ IF ~elapsed
       THEN UNCHANGED <<nozzleVars, elapsed, snapshot, closings, openings, waitPc>>
       ELSE LET closing  == closes(failures, successes, allowedFailurePercent)
                adj      == IF closing THEN close(flowRate, decreaseBy)
                                       ELSE open(flowRate, decreaseBy)
                newState == IF closing THEN Closing ELSE Opening
            IN  /\ flowRate' = adj.flowRate
                /\ decreaseBy' = adj.decreaseBy
                /\ state' = newState
                /\ closed' = closed
                /\ closings' = IF closing /\ closings >= 0 THEN closings + 1 ELSE -1
                /\ openings' = IF ~closing /\ openings >= 0 THEN openings + 1 ELSE -1
                /\ snapshot' =
                      IF changed(flowRate, state, adj.flowRate, newState) /\ onStateChange
                      THEN [FlowRate    |-> adj.flowRate,
                            State       |-> newState,
                            FailureRate |-> failureRate(failures, successes),
                            SuccessRate |-> successRate(adj.flowRate, failures, successes),
                            Allowed     |-> allowed,
                            Blocked     |-> blocked]
                      ELSE snapshot
                /\ ResetAndSignal
    /\ UNCHANGED <<mathVars, configVars, mut, ticker, lifeVars, callerVars, closeVars, callsLeft,
                   ticksLeft>>

\* calculate(), from mut.Lock() to its return, or to the callback
Calculate ==
    /\ loopPc = "calculate"
    /\ mut = "free"
    /\ IF ~elapsed
       THEN /\ loopPc' = "select"
            /\ UNCHANGED <<nozzleVars, elapsed, mut, snapshot, closings, openings,
                           waitPc>>
       ELSE LET closing  == closes(failures, successes, allowedFailurePercent)
                adj      == IF closing THEN close(flowRate, decreaseBy)
                                       ELSE open(flowRate, decreaseBy)
                newState == IF closing THEN Closing ELSE Opening
            IN  /\ flowRate' = adj.flowRate
                /\ decreaseBy' = adj.decreaseBy
                /\ state' = newState
                /\ closed' = closed
                /\ closings' = IF closing /\ closings >= 0 THEN closings + 1 ELSE -1
                /\ openings' = IF ~closing /\ openings >= 0 THEN openings + 1 ELSE -1
                /\ IF changed(flowRate, state, adj.flowRate, newState) /\ onStateChange
                   THEN /\ snapshot' = [FlowRate    |-> adj.flowRate,
                                        State       |-> newState,
                                        FailureRate |-> failureRate(failures, successes),
                                        SuccessRate |-> successRate(adj.flowRate, failures, successes),
                                        Allowed     |-> allowed,
                                        Blocked     |-> blocked]
                        /\ loopPc' = "callback"
                        /\ mut' = "loop"
                        /\ UNCHANGED <<counterVars, elapsed, waitPc>>
                   ELSE /\ ResetAndSignal
                        /\ loopPc' = "select"
                        /\ UNCHANGED <<mut, snapshot>>
    /\ UNCHANGED <<mathVars, configVars, ticker, lifeVars, callerVars, closeVars, callsLeft, ticksLeft>>

\* OnStateChange returns; calculate() resets, signals and unlocks
ObserverReturn ==
    /\ loopPc = "callback"
    /\ ResetAndSignal
    /\ snapshot' = NoSnapshot
    /\ mut' = "free"
    /\ loopPc' = "select"
    /\ UNCHANGED <<flowRate, decreaseBy, state, closed, closings, openings>>
    /\ UNCHANGED <<mathVars, configVars, ticker, lifeVars, callerVars, closeVars, callsLeft, ticksLeft>>

\* OnStateChange panics.  calculate() has no recover: the deferred
\* mut.Unlock() runs, the panic leaves tick() and ends the program, and
\* every goroutine with it.
ObserverPanic ==
    /\ loopPc = "callback"
    /\ loopPc' = "panicked"
    /\ mut' = "free"
    /\ callerPc' = [c \in Callers |-> "dead"]
    /\ closePc' = [k \in Closers |-> "dead"]
    /\ waitPc' = [w \in Sleepers |-> "dead"]
    /\ timeTicker' = [timeTicker EXCEPT !.stopped = TRUE]
    /\ UNCHANGED <<nozzleVars, mathVars, configVars, elapsed, ticker, done, once, shutdowns,
                   panicked, snapshot, closings, openings, callerResult, lateCalls,
                   closeWaited,
                   callsLeft, ticksLeft>>

(***************************************************************************)
(* Close.                                                                  *)
(***************************************************************************)
\* Close(): entering n.once.Do.  A call that finds it done returns nil.
CloseBegin(k) ==
    /\ closePc[k] = "idle"
    /\ LET path == OnceEnter(once)
       IN  /\ path = "run" =>
                /\ once' = "running"
                /\ closePc' = [closePc EXCEPT ![k] = "lock"]
                /\ UNCHANGED closeWaited
           /\ path = "wait" =>
                /\ closePc' = [closePc EXCEPT ![k] = "wait"]
                /\ closeWaited' = closeWaited \cup {k}
                /\ UNCHANGED once
           /\ path = "skip" =>
                /\ closePc' = [closePc EXCEPT ![k] = "returned"]
                /\ UNCHANGED <<once, closeWaited>>
    /\ UNCHANGED <<nozzleVars, mathVars, configVars, elapsed, mut, ticker, done, timeTicker,
                   shutdowns, panicked, loopVars, callerVars, waitPc, callsLeft, ticksLeft>>

\* n.mut.Lock(); n.closed = true; n.mut.Unlock()
CloseLock(k) ==
    /\ closePc[k] = "lock"
    /\ mut = "free"
    /\ closed' = TRUE
    /\ shutdowns' = [shutdowns EXCEPT !.closed = @ + 1]
    /\ closePc' = [closePc EXCEPT ![k] = "closeDone"]
    /\ UNCHANGED <<flowRate, decreaseBy, successes, failures, allowed, blocked, state>>
    /\ UNCHANGED <<mathVars, configVars, elapsed, mut, ticker, done, timeTicker, once, panicked,
                   loopVars, callerVars, closeWaited, waitPc, callsLeft, ticksLeft>>

CloseDoneSkipped(k) ==
    /\ closePc[k] = "closeDone"
    /\ closePc' = [closePc EXCEPT ![k] = "stop"]
    /\ UNCHANGED <<done, shutdowns, panicked>>
    /\ UNCHANGED <<nozzleVars, mathVars, configVars, elapsed, mut, ticker, timeTicker, once,
                   loopVars, callerVars, closeWaited, waitPc, callsLeft, ticksLeft>>

\* close(n.done); closing a closed channel panics
CloseDone(k) ==
    /\ closePc[k] = "closeDone"
    /\ IF done
       THEN /\ panicked' = TRUE
            /\ closePc' = [closePc EXCEPT ![k] = "panicked"]
            /\ UNCHANGED <<done, shutdowns>>
       ELSE /\ done' = TRUE
            /\ shutdowns' = [shutdowns EXCEPT !.done = @ + 1]
            /\ closePc' = [closePc EXCEPT ![k] = "stop"]
            /\ UNCHANGED panicked
    /\ UNCHANGED <<nozzleVars, mathVars, configVars, elapsed, mut, ticker, timeTicker, once,
                   loopVars, callerVars, closeWaited, waitPc, callsLeft, ticksLeft>>

\* n.timeTicker.Stop(); once.Do marks itself done; Close returns nil
CloseStop(k) ==
    /\ closePc[k] = "stop"
    /\ timeTicker' = [timeTicker EXCEPT !.stopped = TRUE]
    /\ shutdowns' = [shutdowns EXCEPT !.stop = @ + 1]
    /\ once' = "done"
    /\ closePc' = [closePc EXCEPT ![k] = "returned"]
    /\ UNCHANGED <<nozzleVars, mathVars, configVars, elapsed, mut, ticker, done, panicked,
                   loopVars, callerVars, closeWaited, waitPc, callsLeft, ticksLeft>>

\* a Close that found once.Do running returns nil when it has finished
CloseWake(k) ==
    /\ closePc[k] = "wait"
    /\ once = "done"
    /\ closePc' = [closePc EXCEPT ![k] = "returned"]
    /\ UNCHANGED <<nozzleVars, mathVars, configVars, elapsed, mut, ticker, lifeVars,
                   loopVars, callerVars, closeWaited, waitPc, callsLeft, ticksLeft>>

(***************************************************************************)
(* Wait.                                                                   *)
(***************************************************************************)
\* Wait(): the channel is made under the mutex
WaitBegin(w) ==
    /\ waitPc[w] = "idle"
    /\ mut = "free"
    /\ ticker' = "made"
    /\ waitPc' = [waitPc EXCEPT ![w] = "begun"]
    /\ UNCHANGED <<nozzleVars, mathVars, configVars, elapsed, mut, lifeVars, loopVars,
                   callerVars, closeVars, callsLeft, ticksLeft>>

\* Wait(): the goroutine parks in <-n.ticker
WaitPark(w) ==
    /\ waitPc[w] = "begun"
    /\ waitPc' = [waitPc EXCEPT ![w] = "recv"]
    /\ UNCHANGED <<nozzleVars, mathVars, configVars, elapsed, mut, ticker, lifeVars, loopVars,
                   callerVars, closeVars, callsLeft, ticksLeft>>

(***************************************************************************)
(* The program.                                                            *)
(***************************************************************************)
CallerStep == \E c \in Callers : DoBool(c) \/ DoError(c) \/ Report(c) \/ CallbackPanic(c)

CloserStep == \E k \in Closers : CloseBegin(k) \/ CloseLock(k) \/ CloseDone(k)
                                    \/ CloseStop(k) \/ CloseWake(k)

WaiterStep == \E w \in Waiters : WaitBegin(w) \/ WaitPark(w)

LoopStep == LoopTakeTick \/ LoopExit \/ Calculate \/ ObserverReturn

Next ==
    \/ CallerStep
    \/ CloserStep
    \/ WaiterStep
    \/ LoopStep
    \/ ObserverPanic
    \/ TimerFire
    \/ ClockAdvance

Spec == Init /\ [][Next]_vars

(***************************************************************************)
(* Fair scheduling: every goroutine that can run does run; sync.Mutex      *)
(* hands the lock to a goroutine that keeps waiting for it; the            *)
(* OnStateChange callback returns.                                         *)
(***************************************************************************)
Fairness ==
    /\ WF_vars(LoopStep)
    /\ \A k \in Closers :
          /\ SF_vars(CloseLock(k))
          /\ WF_vars(CloseDone(k))
          /\ WF_vars(CloseStop(k))
          /\ WF_vars(CloseWake(k))

\* a run with one admission call in which nobody calls Wait
InitLive ==
    /\ Fresh
    /\ Bystanders
    /\ closings = 0
    /\ openings = -1
    /\ interval = 1
    /\ allowedFailurePercent \in Ceilings
    /\ onStateChange \in BOOLEAN
    /\ callsLeft = 1
    /\ ticksLeft = MaxTicks

NextLive ==
    \/ CallerStep
    \/ CloserStep
    \/ LoopStep
    \/ TimerFire
    \/ ClockAdvance

FairSpec == InitLive /\ [][NextLive]_vars /\ Fairness

(***************************************************************************)
(* Construction.  New does not look at its options: it builds the Nozzle,  *)
(* makes the ticker (time.NewTicker panics on an interval <= 0) and starts *)
(* tick().                                                                 *)
(***************************************************************************)
Intervals == (-1)..MaxInterval

CeilingInputs == (-1)..101

\* before New is called: no nozzle, no ticker, no goroutine
Unbuilt ==
    /\ flowRate = 0
    /\ decreaseBy = 0
    /\ successes = 0 /\ failures = 0 /\ allowed = 0 /\ blocked = 0
    /\ state = Opening
    /\ closed = FALSE
    /\ elapsed = TRUE
    /\ mut = "free"
    /\ ticker = "nil"
    /\ done = FALSE
    /\ timeTicker = [c |-> 0, stopped |-> TRUE]
    /\ once = "fresh"
    /\ loopPc = "unstarted"
    /\ snapshot = NoSnapshot
    /\ newResult = "none"

New ==
    /\ newResult = "none"
    /\ IF interval <= 0
       THEN /\ newResult' = "panic"
            /\ UNCHANGED <<flowRate, timeTicker, loopPc>>
       ELSE /\ newResult' = "nozzle"
            /\ flowRate' = 100
            /\ timeTicker' = [c |-> 0, stopped |-> FALSE]
            /\ loopPc' = "select"
    /\ UNCHANGED <<decreaseBy, successes, failures, allowed, blocked, state, closed>>
    /\ UNCHANGED <<allowedFailurePercent, onStateChange, interval, elapsed, mut, ticker,
                   done, once, shutdowns, panicked, snapshot, closings, openings,
                   callerVars,
                   closeVars, waitPc, callsLeft, ticksLeft, mathVars>>

InitNew ==
    /\ Unbuilt
    /\ Bystanders
    /\ closings = 0
    /\ openings = -1
    /\ interval \in Intervals
    /\ allowedFailurePercent \in CeilingInputs
    /\ onStateChange \in BOOLEAN
    /\ callsLeft = 0
    /\ ticksLeft = 1

NextNew == New \/ TimerFire \/ LoopTakeTick \/ Calculate \/ ObserverReturn

SpecNew == InitNew /\ [][NextNew]_vars

(***************************************************************************)
(* A fresh nozzle used by one goroutine through MaxClosings intervals.     *)
(***************************************************************************)
InitClosing ==
    /\ Fresh
    /\ Bystanders
    /\ closings = 0
    /\ openings = -1
    /\ interval = 1
    /\ allowedFailurePercent \in Ceilings
    /\ onStateChange \in BOOLEAN
    /\ callsLeft = MaxClosings
    /\ ticksLeft = MaxClosings

\* the one goroutine that calls the nozzle
Driver == CHOOSE c \in Callers : Kind(c) = "DoBool"

NextClosing ==
    \/ DoBool(Driver)
    \/ Report(Driver)
    \/ TimerFire
    \/ ClockAdvance
    \/ LoopTakeTick
    \/ Calculate
    \/ ObserverReturn

SpecClosing == InitClosing /\ [][NextClosing]_vars

(***************************************************************************)
(* The same goroutine and control loop, continuing from the state that     *)
(* seven closing ticks of a fresh nozzle end in, at the start of an        *)
(* interval.                                                               *)
(***************************************************************************)
InitOpening ==
    /\ flowRate = 0
    /\ decreaseBy = -128
    /\ state = Closing
    /\ successes = 0 /\ failures = 0 /\ allowed = 0 /\ blocked = 0
    /\ closed = FALSE
    /\ elapsed = FALSE
    /\ mut = "free"
    /\ ticker = "nil"
    /\ done = FALSE
    /\ timeTicker = [c |-> 0, stopped |-> FALSE]
    /\ once = "fresh"
    /\ loopPc = "select"
    /\ snapshot = NoSnapshot
    /\ newResult = "nozzle"
    /\ Bystanders
    /\ closings = -1
    /\ openings = 0
    /\ interval = 1
    /\ allowedFailurePercent \in Ceilings
    /\ onStateChange \in BOOLEAN
    /\ callsLeft = MaxClosings
    /\ ticksLeft = MaxClosings

SpecOpening == InitOpening /\ [][NextClosing]_vars

(***************************************************************************)
(* The same goroutine and control loop, continuing from the state that six *)
(* closing ticks of a fresh nozzle end in, through an interval of four     *)
(* calls.                                                                  *)
(***************************************************************************)
InitSnapshot ==
    /\ flowRate = 37
    /\ decreaseBy = -64
    /\ state = Closing
    /\ successes = 0 /\ failures = 0 /\ allowed = 0 /\ blocked = 0
    /\ closed = FALSE
    /\ elapsed = FALSE
    /\ mut = "free"
    /\ ticker = "nil"
    /\ done = FALSE
    /\ timeTicker = [c |-> 0, stopped |-> FALSE]
    /\ once = "fresh"
    /\ loopPc = "select"
    /\ snapshot = NoSnapshot
    /\ newResult = "nozzle"
    /\ Bystanders
    /\ closings = -1
    /\ openings = -1
    /\ interval = 1
    /\ allowedFailurePercent \in Ceilings
    /\ onStateChange \in BOOLEAN
    /\ callsLeft = 2 * MaxCalls
    /\ ticksLeft = MaxTicks

SpecSnapshot == InitSnapshot /\ [][NextClosing]_vars

(***************************************************************************)
(* One goroutine in Wait while another calls the nozzle and the control     *)
(* loop ticks.  The runtime keeps delivering ticks, and the tick()          *)
(* goroutine keeps running.                                                *)
(***************************************************************************)
\* the one goroutine that calls Wait
Sleeper == CHOOSE w \in Waiters : TRUE

InitWait ==
    /\ Fresh
    /\ Bystanders
    /\ closings = -1
    /\ openings = -1
    /\ interval = 1
    /\ allowedFailurePercent \in Ceilings
    /\ onStateChange \in BOOLEAN
    /\ callsLeft = MaxCalls
    /\ ticksLeft = MaxTicks

TickStep == LoopTakeTick \/ Calculate \/ ObserverReturn

NextWait ==
    \/ WaitBegin(Sleeper)
    \/ WaitPark(Sleeper)
    \/ DoBool(Driver)
    \/ Report(Driver)
    \/ TimerFire
    \/ ClockAdvance
    \/ TickStep

SpecWait == InitWait /\ [][NextWait]_vars /\ WF_vars(TimerFire) /\ WF_vars(TickStep)

(***************************************************************************)
(* The calling goroutines and the control loop of a nozzle that nobody     *)
(* closes or waits on.                                                     *)
(***************************************************************************)
NextCalls ==
    \/ CallerStep
    \/ TimerFire
    \/ ClockAdvance
    \/ TickStep

SpecCalls == InitWait /\ [][NextCalls]_vars

(***************************************************************************)
(* safeMultiply on its own, applied to operands around zero, around the    *)
(* square root of the largest integer, around half the range and at both   *)
(* ends of it.                                                             *)
(***************************************************************************)
MulInputs ==
    LET half == (MaxInt64 \div 2) + 1
    IN  {0, 1, 2, 3, 32768, 46340, 46341, 65536, half - 1, half, half + 1,
         MaxInt64 - 1, MaxInt64}
        \cup {-1, -2, -3, -32768, -46340, -46341, -65536, 1 - half, -half, -half - 1,
              -MaxInt64, MinInt64}

InitMultiply ==
    /\ Fresh
    /\ callerPc = [c \in Callers |-> "idle"]
    /\ callerResult = [c \in Callers |-> "none"]
    /\ closePc = [k \in Closers |-> "idle"]
    /\ closeWaited = {}
    /\ waitPc = [w \in Sleepers |-> "idle"]
    /\ shutdowns = [closed |-> 0, done |-> 0, stop |-> 0]
    /\ panicked = FALSE
    /\ lateCalls = 0
    /\ closings = -1
    /\ openings = -1
    /\ interval = 1
    /\ allowedFailurePercent = 50
    /\ onStateChange = FALSE
    /\ callsLeft = 0
    /\ ticksLeft = 0
    /\ mulA \in MulInputs
    /\ mulB \in MulInputs
    /\ mulResult = 0
    /\ mulPc = "called"

\* safeMultiply(mulA, mulB) returns
Multiply ==
    /\ mulPc = "called"
    /\ mulResult' = safeMultiply(mulA, mulB)
    /\ mulPc' = "returned"
    /\ UNCHANGED <<mulA, mulB>>
    /\ UNCHANGED <<nozzleVars, configVars, elapsed, mut, ticker, lifeVars, loopVars,
                   callerVars, closeVars, waitPc, callsLeft, ticksLeft>>

SpecMultiply == InitMultiply /\ [][Multiply]_vars

(***************************************************************************)
(* A fresh nozzle with any of the goroutines of Sleepers already parked in *)
(* Wait, one calling goroutine and the control loop.  Nobody else calls    *)
(* Wait, so a goroutine found parked later was parked from the start.      *)
(***************************************************************************)
InitWaiters ==
    /\ flowRate = 100
    /\ decreaseBy = 0
    /\ successes = 0 /\ failures = 0 /\ allowed = 0 /\ blocked = 0
    /\ state = Opening
    /\ closed = FALSE
    /\ elapsed = TRUE
    /\ mut = "free"
    /\ done = FALSE
    /\ timeTicker = [c |-> 0, stopped |-> FALSE]
    /\ once = "fresh"
    /\ loopPc = "select"
    /\ snapshot = NoSnapshot
    /\ newResult = "nozzle"
    /\ Unmultiplied
    /\ callerPc = [c \in Callers |-> "idle"]
    /\ callerResult = [c \in Callers |-> "none"]
    /\ closePc = [k \in Closers |-> "idle"]
    /\ closeWaited = {}
    /\ shutdowns = [closed |-> 0, done |-> 0, stop |-> 0]
    /\ panicked = FALSE
    /\ lateCalls = 0
    /\ waitPc \in [Sleepers -> {"idle", "recv"}]
    /\ ticker = (IF \E w \in Sleepers : waitPc[w] = "recv" THEN "made" ELSE "nil")
    /\ closings = -1
    /\ openings = -1
    /\ interval = 1
    /\ allowedFailurePercent \in Ceilings
    /\ onStateChange \in BOOLEAN
    /\ callsLeft = MaxCalls
    /\ ticksLeft = MaxTicks

NextWaiters ==
    \/ DoBool(Driver)
    \/ Report(Driver)
    \/ TimerFire
    \/ ClockAdvance
    \/ TickStep

SpecWaiters == InitWaiters /\ [][NextWaiters]_vars

(***************************************************************************)
(* The control states a nozzle can be in: the sign of decreaseBy follows   *)
(* the last adjustment, and a run of j adjustments in one direction moves  *)
(* flowRate by 2^j - 1.                                                    *)
(***************************************************************************)
StepValues ==
    {0} \cup {Pow2(j) : j \in 1..7} \cup {-Pow2(j) : j \in 1..29} \cup {-maxDecreaseBy}

ControlShape(fr, db, st) ==
    /\ fr \in 0..100
    /\ db \in StepValues
    /\ st = (IF db < 0 THEN Closing ELSE Opening)
    /\ db = 0 => fr = 100
    /\ db > 0 => fr >= db - 1 \/ fr = 100
    /\ db < 0 => fr <= 101 + db \/ fr = 0

ControlStates ==
    {x \in (0..100) \X StepValues \X {Opening, Closing} : ControlShape(x[1], x[2], x[3])}

\* a tick has been taken from timeTicker.C and calculate() is about to run
AtTick ==
    /\ mut = "free"
    /\ ticker = "nil"
    /\ done = FALSE
    /\ timeTicker = [c |-> 0, stopped |-> FALSE]
    /\ once = "fresh"
    /\ loopPc = "calculate"
    /\ snapshot = NoSnapshot
    /\ closed = FALSE
    /\ Bystanders
    /\ closings = -1
    /\ openings = -1
    /\ interval = 1
    /\ newResult = "nozzle"
    /\ callsLeft = 0
    /\ ticksLeft = 0

\* every control state, after an interval with no outcome, one failure or
\* one success
InitSteps ==
    /\ AtTick
    /\ \E x \in ControlStates :
          /\ flowRate = x[1]
          /\ decreaseBy = x[2]
          /\ state = x[3]
    /\ \E o \in {<<0, 0>>, <<1, 0>>, <<0, 1>>} :
          /\ failures = o[1]
          /\ successes = o[2]
          /\ allowed = o[1] + o[2]
    /\ blocked = 0
    /\ allowedFailurePercent \in Ceilings
    /\ onStateChange \in BOOLEAN
    /\ elapsed = TRUE

\* a fully open nozzle after an interval with any outcomes, under any ceiling
InitRates ==
    /\ AtTick
    /\ flowRate = 100 /\ decreaseBy = 0 /\ state = Opening
    /\ failures \in 0..MaxTally
    /\ successes \in 0..MaxTally
    /\ allowed = failures + successes
    /\ blocked = 0
    /\ allowedFailurePercent \in 0..100
    /\ onStateChange \in BOOLEAN
    /\ elapsed = TRUE

InitAdjust == InitSteps \/ InitRates

NextAdjust == Calculate \/ ObserverReturn

SpecAdjust == InitAdjust /\ [][NextAdjust]_vars

(***************************************************************************)
(* Admission from any counter values of an interval.                       *)
(***************************************************************************)
GateShape(fr, al, bl) ==
    /\ fr = 100 => bl = 0
    /\ fr = 0 => al = 0
    /\ (fr > 0 /\ bl > 0) => al > 0

\* a running nozzle in the middle of an interval whose admitted calls have
\* all reported success
InitAdmit ==
    /\ mut = "free"
    /\ ticker = "nil"
    /\ done = FALSE
    /\ timeTicker = [c |-> 0, stopped |-> FALSE]
    /\ once = "fresh"
    /\ loopPc = "select"
    /\ snapshot = NoSnapshot
    /\ closed = FALSE
    /\ Bystanders
    /\ closings = -1
    /\ openings = -1
    /\ interval = 1
    /\ newResult = "nozzle"
    /\ elapsed = FALSE
    /\ flowRate \in 0..100
    /\ LET x == CHOOSE y \in ControlStates : y[1] = flowRate
       IN  decreaseBy = x[2] /\ state = x[3]
    /\ allowed \in 0..MaxTally
    /\ blocked \in 0..MaxTally
    /\ GateShape(flowRate, allowed, blocked)
    /\ successes = allowed
    /\ failures = 0
    /\ allowedFailurePercent = 50
    /\ onStateChange = FALSE
    /\ callsLeft = 1
    /\ ticksLeft = 0

NextAdmit == \E c \in Callers : DoBool(c) \/ DoError(c)

SpecAdmit == InitAdmit /\ [][NextAdmit]_vars

ShapeKept == ControlShape(flowRate, decreaseBy, state)

TypeOK ==
    /\ flowRate \in Int /\ decreaseBy \in Int
    /\ successes \in Nat /\ failures \in Nat /\ allowed \in Nat /\ blocked \in Nat
    /\ state \in {Opening, Closing}
    /\ closed \in BOOLEAN
    /\ mut \in {"free", "loop"}
    /\ loopPc \in {"unstarted", "select", "calculate", "callback", "exited", "panicked"}
    /\ mut = "loop" <=> loopPc = "callback"

(***************************************************************************)
(* Properties.                                                             *)
(***************************************************************************)
\* some Close() has returned
closeReturned == \E k \in Closers : closePc[k] = "returned"

\* some Close() has been called
closeCalled == \E k \in Closers : closePc[k] # "idle"

\* this step is an admission call of c
AdmissionBy(c) == DoBool(c) \/ DoError(c)

\* this step invokes the OnStateChange callback
ObserverInvoked == loopPc # "callback" /\ loopPc' = "callback"

\* C1: in every reachable state 0 <= flowRate <= 100.
C1_FlowRateInRange == flowRate >= 0 /\ flowRate <= 100

\* a closing tick has taken a positive flowRate down by more than was left:
\* the rate is held at 0 and the observer is being told of the change
C1_Witness ==
    /\ loopPc = "callback"
    /\ snapshot.FlowRate = 0
    /\ flowRate = 0
    /\ state = Closing
    /\ decreaseBy = -128

\* C2: an admission call that begins after a Close() has returned is denied
\* as closed (DoBool: zero value and false; DoError: zero value and
\* ErrClosed), its callback is not run and allowed, blocked, successes and
\* failures keep their values.
C2_ClosedDenies ==
    [][\A c \in Callers :
          (closeReturned /\ AdmissionBy(c)) =>
             /\ callerResult'[c] = Denied(Kind(c), "closed")
             /\ callerPc'[c] = "idle"
             /\ UNCHANGED counterVars]_vars

\* both callers have called after Close() returned and been turned away
C2_Witness ==
    /\ lateCalls = 2
    /\ callerResult[1] = "false"
    /\ callerResult[2] = "ErrClosed"

\* C3: once a Close() has returned, no step invokes the OnStateChange callback.
C3_NoObserverAfterClose == [][closeReturned => ~ObserverInvoked]_vars

\* C4: in every reachable state successes + failures <= allowed.
C4_OutcomesWithinAllowed == successes + failures <= allowed

\* the admission rule of the claim, in integer arithmetic
admitRatio(al, bl) == IF al > 0 THEN IntPercent(al, al + bl) ELSE 0

Admits(fr, al, bl) ==
    \/ fr = 100
    \/ (0 < fr /\ fr < 100 /\ admitRatio(al, bl) < fr)

\* C5: a call to a nozzle that is not closed is admitted exactly when
\* flowRate = 100, or 0 < flowRate < 100 and
\* floor(allowed * 100 / (allowed + blocked)) < flowRate (0 for allowed = 0).
C5_AdmissionRule ==
    [][\A c \in Callers :
          (~closed /\ AdmissionBy(c)) =>
             (callerPc'[c] = "callback" <=> Admits(flowRate, allowed, blocked))]_vars

\* C6: a tick that adjusts closes and sets state = Closing exactly when
\* floor(failures * 100 / (failures + successes)) > AllowedFailurePercent
\* (0 without outcomes); otherwise it opens and sets state = Opening.
C6_Direction ==
    [][(Calculate /\ elapsed) =>
          LET rate == IF failures + successes = 0 THEN 0
                      ELSE IntPercent(failures, failures + successes)
              adj  == IF rate > allowedFailurePercent
                      THEN close(flowRate, decreaseBy)
                      ELSE open(flowRate, decreaseBy)
          IN  /\ state' = (IF rate > allowedFailurePercent THEN Closing ELSE Opening)
              /\ flowRate' = adj.flowRate
              /\ decreaseBy' = adj.decreaseBy]_vars

\* C7: in every reachable state |decreaseBy| <= maxDecreaseBy.
C7_StepBounded == decreaseBy >= -maxDecreaseBy /\ decreaseBy <= maxDecreaseBy

\* a closing tick has doubled the step past the cap and been held at it
C7_Witness ==
    /\ loopPc = "select"
    /\ elapsed = FALSE
    /\ state = Closing
    /\ decreaseBy = -maxDecreaseBy

\* C8: a Close() called after an earlier Close() has completed returns nil
\* at once and changes nothing of the nozzle, the timer or the done channel.
C8_CloseIdempotent ==
    [][\A k \in Closers :
          (once = "done" /\ CloseBegin(k)) =>
             /\ closePc'[k] = "returned"
             /\ UNCHANGED <<nozzleVars, configVars, elapsed, mut, ticker, done,
                            timeTicker, once, shutdowns, panicked, loopVars>>]_vars

\* every closer has called Close() and returned, none of them during another's call
C8_Witness ==
    /\ \A k \in Closers : closePc[k] = "returned"
    /\ closeWaited = {}

\* C9: with concurrent Close() calls no call panics, each shutdown statement
\* (closed = true, close(done), timeTicker.Stop()) runs at most once, and
\* all three have run once when a call has returned.
C9_ConcurrentClose ==
    /\ ~panicked
    /\ \A k \in Closers : closePc[k] # "panicked"
    /\ shutdowns.closed <= 1 /\ shutdowns.done <= 1 /\ shutdowns.stop <= 1
    /\ closeReturned => shutdowns = [closed |-> 1, done |-> 1, stop |-> 1]

\* every closer has returned, one of them having called while another's
\* Close() was still running
C9_Witness ==
    /\ \A k \in Closers : closePc[k] = "returned"
    /\ closeWaited # {}

\* C10: after Close() is called the tick() goroutine eventually returns.
C10_LoopTerminates == closeCalled ~> (loopPc = "exited")

\* the loop has returned after ticks that closed the nozzle, and every
\* Close() has returned
C10_Witness ==
    /\ loopPc = "exited"
    /\ state = Closing
    /\ \A k \in Closers : closePc[k] = "returned"

\* this step starts an invocation of OnStateChange with a new snapshot
ObserverStarts == snapshot' # snapshot /\ snapshot' # NoSnapshot

\* the options New was given are the ones the documentation allows
ValidOptions == interval > 0 /\ allowedFailurePercent >= 0 /\ allowedFailurePercent <= 100

\* C11: a tick invokes the observer exactly when one is configured and the
\* tick changed flowRate or state, and an invocation is followed by the
\* loop's return to its select, so a tick invokes it at most once.
C11_ObserverOncePerChange ==
    [][/\ ObserverInvoked <=>
             /\ loopPc = "calculate"
             /\ loopPc' # "calculate"
             /\ onStateChange
             /\ (flowRate' # flowRate \/ state' # state)
       /\ loopPc = "callback" => loopPc' \in {"callback", "select"}]_vars

\* a tick of a closing nozzle has changed flowRate alone (99 to 97) and the
\* observer is running with the snapshot of it
C11_Witness ==
    /\ loopPc = "callback"
    /\ snapshot.FlowRate = 97
    /\ snapshot.State = Closing
    /\ decreaseBy = -4

\* C12: when an invocation of the observer ends, by return or by panic, the
\* loop is back at its select, the mutex is free and the goroutines calling
\* the nozzle go on.
C12_ObserverPanicDiscarded ==
    [][(loopPc = "callback" /\ loopPc' # "callback") =>
          /\ loopPc' = "select"
          /\ mut' = "free"
          /\ \A c \in Callers : callerPc'[c] # "dead"]_vars

\* C13: an invocation of the observer starts only when no invocation is
\* running.
C13_ObserverSequential == [][ObserverStarts => snapshot = NoSnapshot]_vars

\* the observer is running for the second of two closing ticks
C13_Witness ==
    /\ loopPc = "callback"
    /\ closings = 2
    /\ snapshot.FlowRate = 97

\* C14: while the observer is running, a goroutine that calls DoBool or
\* DoError can take its step.
C14_CallbackDoesNotBlock ==
    \A c \in Callers :
        (loopPc = "callback" /\ callerPc[c] = "idle" /\ callsLeft > 0)
            => ENABLED AdmissionBy(c)

\* C15: New returns ErrInvalidInterval for an interval <= 0,
\* ErrInvalidFailurePercent for a ceiling outside 0..100, and a nozzle
\* otherwise.
C15_NewValidates ==
    newResult # "none" =>
        newResult = (IF interval <= 0 THEN "ErrInvalidInterval"
                     ELSE IF allowedFailurePercent < 0 \/ allowedFailurePercent > 100
                          THEN "ErrInvalidFailurePercent"
                     ELSE "nozzle")

\* C16: after New was called with options that are not valid, no tick()
\* goroutine and no ticker is running.
C16_NoActivityOnInvalid ==
    (newResult # "none" /\ ~ValidOptions) => (loopPc = "unstarted" /\ timeTicker.stopped)

\* C17: an admission call on a nozzle that is not closed adds one to exactly
\* one of allowed and blocked, and nothing else changes the two but a reset
\* to zero; so allowed + blocked is the number of calls since the reset.
C17_EveryCallCounted ==
    [][/\ \A c \in Callers :
             (AdmissionBy(c) /\ ~closed) =>
                 \/ allowed' = allowed + 1 /\ blocked' = blocked
                 \/ allowed' = allowed /\ blocked' = blocked + 1
       /\ (allowed' # allowed \/ blocked' # blocked) =>
             \/ \E c \in Callers : AdmissionBy(c)
             \/ allowed' = 0 /\ blocked' = 0]_vars

\* a call has been blocked after one was allowed
C17_Witness ==
    /\ callsLeft = 0
    /\ allowed = 1
    /\ blocked = 1

WithinOne(fr, al, bl) ==
    /\ 100 * al - (al + bl) * fr <= 100
    /\ (al + bl) * fr - 100 * al <= 100

\* C19: at a fixed flowRate the number of admitted calls stays within 1 of
\* N * flowRate / 100.  It is so before the first call (0 of 0), and every
\* call keeps it so.
C19_ProportionSteered ==
    [][WithinOne(flowRate, allowed, blocked) => WithinOne(flowRate', allowed', blocked')]_vars

\* the call after 29 admitted of 50 at flowRate 58, where the float64 ratio
\* is 57, has been admitted
C19_Witness ==
    /\ callsLeft = 0
    /\ flowRate = 58
    /\ allowed = 30
    /\ blocked = 21

ClosingRates == <<99, 97, 93, 85, 69, 37, 0>>

\* C20: after k <= 7 ticks of a fresh nozzle that all closed, flowRate is the
\* k-th of 99, 97, 93, 85, 69, 37, 0 and state is Closing.
C20_ClosingSequence ==
    (closings >= 1 /\ closings <= Len(ClosingRates)) =>
        (flowRate = ClosingRates[closings] /\ state = Closing)

\* seven ticks have closed the nozzle all the way
C20_Witness ==
    /\ closings = 7
    /\ flowRate = 0
    /\ state = Closing
    /\ loopPc = "select"

OpeningRates == <<1, 3, 7, 15, 31, 63, 100>>

\* C21: continuing from the state seven closing ticks leave (flowRate 0),
\* after k <= 7 ticks that all opened, flowRate is the k-th of 1, 3, 7, 15,
\* 31, 63, 100 and state is Opening.
C21_OpeningSequence ==
    (openings >= 1 /\ openings <= Len(OpeningRates)) =>
        (flowRate = OpeningRates[openings] /\ state = Opening)

\* seven ticks that saw successes have opened the nozzle all the way
C21_Witness ==
    /\ openings = 7
    /\ flowRate = 100
    /\ state = Opening
    /\ loopPc = "select"
    /\ callsLeft < MaxClosings

\* the state SpecOpening starts in is the one seven closing ticks end in
ClosedAfterSeven ==
    (closings = 7 /\ loopPc = "select" /\ callerPc[Driver] = "idle") =>
        /\ flowRate = 0 /\ decreaseBy = -128 /\ state = Closing
        /\ successes = 0 /\ failures = 0 /\ allowed = 0 /\ blocked = 0
        /\ mut = "free" /\ snapshot = NoSnapshot

\* this step is calculate() adjusting the nozzle: it ran past the interval
\* check
TickAdjusts == loopPc = "calculate" /\ loopPc' # "calculate" /\ elapsed

\* this step is a tick that observes a failure rate above the ceiling
TickAboveCeiling ==
    TickAdjusts /\ failureRate(failures, successes) > allowedFailurePercent

\* C22: a fully open nozzle stays at flowRate 100 and state Opening, and the
\* observer is not invoked, in every step that is not a tick observing a
\* failure rate above the ceiling; so a run without such a tick keeps the
\* nozzle fully open in every state and never notifies the observer.
C22_StaysOpen ==
    [][(flowRate = 100 /\ state = Opening /\ ~TickAboveCeiling) =>
          (flowRate' = 100 /\ state' = Opening /\ ~ObserverInvoked)]_vars

\* three ticks have adjusted a nozzle whose calls failed no more often than
\* the ceiling allows, and it is still fully open
C22_Witness ==
    /\ flowRate = 100
    /\ state = Opening
    /\ decreaseBy = 0
    /\ closings = -1
    /\ loopPc = "select"
    /\ ticksLeft <= MaxClosings - 3
    /\ callsLeft <= MaxClosings - 3

\* C23: a tick that adjusts a nozzle at flowRate 0 after an interval with no
\* outcome sets state to Opening and flowRate to 1, whatever decreaseBy was.
C23_ClosedReopens ==
    [][(TickAdjusts /\ flowRate = 0 /\ failures = 0 /\ successes = 0) =>
          (state' = Opening /\ flowRate' = 1)]_vars

\* a tick of an empty interval has reopened a fully closed nozzle: only
\* open() from flowRate 0 with a non-positive decreaseBy ends at 1 with step 2
C23_Witness ==
    /\ loopPc = "select"
    /\ elapsed = FALSE
    /\ flowRate = 1
    /\ decreaseBy = 2
    /\ state = Opening
    /\ successes = 0 /\ failures = 0

\* this step returns from Wait
WaitReturns(w) == waitPc[w] # "returned" /\ waitPc'[w] = "returned"

\* the control loop has a tick ahead of it that will adjust the nozzle
TickAhead ==
    /\ loopPc \in {"select", "calculate", "callback"}
    /\ elapsed
    /\ ticksLeft > 0 \/ timeTicker.c > 0 \/ loopPc # "select"

\* C24: Wait returns only in a step of calculate() that finds it parked on
\* the channel (so calculate() took the mutex after Wait released it) and
\* that leaves the four counters reset; and a parked Wait whose control loop
\* has an adjusting tick ahead of it eventually returns.
C24_WaitReturnsAfterTick ==
    /\ [][WaitReturns(Sleeper) =>
            /\ waitPc[Sleeper] = "recv"
            /\ loopPc \in {"calculate", "callback"}
            /\ loopPc' = "select"
            /\ successes' = 0 /\ failures' = 0 /\ allowed' = 0 /\ blocked' = 0]_vars
    /\ (waitPc[Sleeper] = "recv" /\ TickAhead) ~> (waitPc[Sleeper] = "returned")

\* Wait has returned after a tick that closed the nozzle by one step
C24_Witness ==
    /\ waitPc[Sleeper] = "returned"
    /\ flowRate = 99
    /\ successes = 0 /\ failures = 0 /\ allowed = 0 /\ blocked = 0

\* this step returns from the function of an admitted call of c
CallbackEnds(c) == callerPc[c] = "callback" /\ callerPc'[c] = "idle"

\* C25: every return of an admitted call's function is one report, one
\* increment of successes or of failures, a panic being an increment of
\* failures; and a denied call reports nothing.
C25_OneReportPerAdmission ==
    [][\A c \in Callers :
          /\ CallbackEnds(c) =>
                /\ successes' + failures' = successes + failures + 1
                /\ callerResult'[c] = "panic" => failures' = failures + 1
          /\ (AdmissionBy(c) /\ callerPc'[c] = "idle") =>
                (successes' = successes /\ failures' = failures)]_vars

\* C26: in every snapshot handed to the observer after an interval with an
\* admission decision, FailureRate + SuccessRate = 100.
C26_RatesSumTo100 ==
    (loopPc = "callback" /\ (snapshot.Allowed > 0 \/ snapshot.Blocked > 0)) =>
        snapshot.FailureRate + snapshot.SuccessRate = 100

\* the state SpecSnapshot starts in is the one six closing ticks end in
ClosedAfterSix ==
    (closings = 6 /\ loopPc = "select") =>
        /\ flowRate = 37 /\ decreaseBy = -64 /\ state = Closing
        /\ mut = "free" /\ snapshot = NoSnapshot

\* C27: while the function of an admitted call is running and the control
\* loop is not inside calculate()'s observer call, the mutex is free for the
\* other goroutines: one that is about to call DoBool / DoError can take its
\* admission step, and one whose own function has finished can report and
\* return.
C27_FunctionsOutsideMutex ==
    \A c \in Callers : \A d \in Callers \ {c} :
        (callerPc[c] = "callback" /\ loopPc # "callback") =>
            /\ (callerPc[d] = "idle" /\ callsLeft > 0) => ENABLED AdmissionBy(d)
            /\ callerPc[d] = "callback" => ENABLED Report(d)

\* two calls were admitted in one interval; a tick later one of them has
\* reported its outcome and returned while the function of the other is
\* still running
C27_Witness ==
    \E c \in Callers : \E d \in Callers \ {c} :
        /\ callsLeft = MaxCalls - 2
        /\ callerPc[c] = "callback"
        /\ callerPc[d] = "idle"
        /\ callerResult[d] \in {"true", "nil"}
        /\ allowed = 0
        /\ successes = 1
        /\ failures = 0

\* this step is a tick's closing adjustment
TickCloses == TickAdjusts /\ closes(failures, successes, allowedFailurePercent)

\* this step is a tick's opening adjustment
TickOpens == TickAdjusts /\ ~closes(failures, successes, allowedFailurePercent)

\* C28: a closing adjustment at flowRate 0 leaves flowRate and decreaseBy
\* unchanged, whatever decreaseBy is.
C28_ClosedBoundaryIdle ==
    [][(TickCloses /\ flowRate = 0) =>
          (flowRate' = 0 /\ decreaseBy' = decreaseBy)]_vars

\* C29: an opening adjustment at flowRate 100 leaves flowRate and
\* decreaseBy unchanged, whatever decreaseBy is.
C29_OpenBoundaryIdle ==
    [][(TickOpens /\ flowRate = 100) =>
          (flowRate' = 100 /\ decreaseBy' = decreaseBy)]_vars

\* an opening tick has gone by at flowRate 100 and has left the step as it
\* was: open() below 100 never ends with decreaseBy 0
C29_Witness ==
    /\ loopPc = "select"
    /\ elapsed = FALSE
    /\ flowRate = 100
    /\ state = Opening
    /\ decreaseBy = 0
    /\ allowedFailurePercent = 100

\* C30: an opening adjustment below 100 with decreaseBy <= 0 raises
\* flowRate by 1 and sets decreaseBy to 2; a closing adjustment above 0 with
\* decreaseBy >= 0 lowers flowRate by 1 and sets decreaseBy to -2.
C30_ReversalRestartsAtUnit ==
    [][/\ (TickOpens /\ decreaseBy <= 0 /\ flowRate < 100) =>
             (flowRate' = flowRate + 1 /\ decreaseBy' = 2)
       /\ (TickCloses /\ decreaseBy >= 0 /\ flowRate > 0) =>
             (flowRate' = flowRate - 1 /\ decreaseBy' = -2)]_vars

\* a closing tick has reversed a nozzle that was opening below 100 at a
\* step larger than 1
C30_Witness ==
    /\ loopPc = "callback"
    /\ snapshot.FlowRate = 62
    /\ snapshot.State = Closing
    /\ flowRate = 62
    /\ decreaseBy = -2

\* the magnitude of a step
Magnitude(x) == IF x < 0 THEN -x ELSE x

\* this step is a tick's adjustment away from the boundary it moves towards
TickMoves ==
    \/ TickCloses /\ flowRate > 0
    \/ TickOpens /\ flowRate < 100

\* C31 as stated: a tick away from the boundary moves flowRate by exactly
\* the magnitude of the decreaseBy it found, in the chosen direction, and
\* leaves the magnitude of decreaseBy as it was or doubled.
C31_StepIsChangeBy ==
    [][TickMoves =>
          /\ flowRate' = flowRate + (IF TickCloses THEN -Magnitude(decreaseBy)
                                                   ELSE Magnitude(decreaseBy))
          /\ \/ Magnitude(decreaseBy') = Magnitude(decreaseBy)
             \/ Magnitude(decreaseBy') = 2 * Magnitude(decreaseBy)]_vars

\* C31, amended: a tick away from the boundary moves flowRate by step, held
\* within 0..100, where step is the decreaseBy it found when that has the
\* sign of the chosen direction and the unit step of that sign otherwise;
\* it leaves decreaseBy at twice the step, held within the cap.  An opening
\* tick at flowRate 100 leaves both as they were.
C31_StepIsSignedOrUnit ==
    [][/\ TickMoves =>
             LET step == IF TickCloses
                         THEN (IF decreaseBy < 0 THEN decreaseBy ELSE -1)
                         ELSE (IF decreaseBy > 0 THEN decreaseBy ELSE 1)
                 moved == flowRate + step
             IN  /\ flowRate' = (IF moved < 0 THEN 0 ELSE IF moved > 100 THEN 100 ELSE moved)
                 /\ decreaseBy' = (IF 2 * Magnitude(step) > maxDecreaseBy
                                   THEN (IF step < 0 THEN -maxDecreaseBy ELSE maxDecreaseBy)
                                   ELSE 2 * step)
       /\ (TickOpens /\ flowRate = 100) =>
             (flowRate' = flowRate /\ decreaseBy' = decreaseBy)]_vars

\* a closing tick has taken flowRate from 97 down by the step of 4 it found
\* and has doubled the step: only close() from 97 with decreaseBy -4 ends here
C31_Witness ==
    /\ loopPc = "select"
    /\ elapsed = FALSE
    /\ flowRate = 93
    /\ decreaseBy = -8
    /\ state = Closing

\* this step is the return of a calculate() that adjusted the nozzle
TickCompletes ==
    /\ loopPc \in {"calculate", "callback"}
    /\ loopPc' = "select"
    /\ elapsed

\* C32: the step in which an adjusting tick completes leaves allowed,
\* blocked, successes and failures at 0 and starts a new interval; only
\* admissions and reports count again after it.
C32_TickResetsCounters ==
    [][/\ TickCompletes =>
             /\ successes' = 0 /\ failures' = 0 /\ allowed' = 0 /\ blocked' = 0
             /\ elapsed' = FALSE
       /\ (~TickCompletes /\ allowed' + blocked' > allowed + blocked) =>
             \E c \in Callers : AdmissionBy(c)
       /\ (~TickCompletes /\ successes' + failures' > successes + failures) =>
             \E c \in Callers : Report(c)]_vars

\* a tick that found a failed call among two admitted ones has closed the
\* nozzle by one step and left every counter at 0
C32_Witness ==
    /\ loopPc = "select"
    /\ elapsed = FALSE
    /\ flowRate = 99
    /\ state = Closing
    /\ callsLeft = MaxCalls - 2
    /\ successes = 0 /\ failures = 0 /\ allowed = 0 /\ blocked = 0
    /\ \A c \in Callers : callerPc[c] = "idle" /\ callerResult[c] # "none"

\* this step is a calculate() that finds less than one interval gone by
\* since n.start
TickTooEarly == loopPc = "calculate" /\ loopPc' # "calculate" /\ ~elapsed

\* C33: a tick that arrives before the interval has elapsed changes
\* nothing: flowRate, state, decreaseBy, the four counters and the start of
\* the interval stay, the observer is not invoked and no Wait is woken.
C33_EarlyTickIdle ==
    [][TickTooEarly =>
          /\ UNCHANGED <<flowRate, state, decreaseBy, closed>>
          /\ UNCHANGED <<successes, failures, allowed, blocked>>
          /\ UNCHANGED <<elapsed, snapshot, waitPc>>
          /\ ~ObserverInvoked
          /\ loopPc' = "select"]_vars

\* the first tick closed a fresh nozzle by one step; the second arrived
\* before the next interval had elapsed and left the nozzle, the call
\* counted since and the parked Wait as they were
C33_Witness ==
    /\ ticksLeft = MaxTicks - 2
    /\ timeTicker.c = 0
    /\ loopPc = "select"
    /\ elapsed = FALSE
    /\ flowRate = 99
    /\ decreaseBy = -2
    /\ allowed = 1
    /\ waitPc[Sleeper] = "recv"

C35_AdmissionFrame ==
    [][\A c \in Callers :
          AdmissionBy(c) =>
              /\ UNCHANGED <<flowRate, state, decreaseBy, successes, failures, closed,
                             elapsed>>
              /\ callerPc'[c] = "callback" =>
                    (allowed' = allowed + 1 /\ blocked' = blocked)
              /\ (callerPc'[c] = "idle" /\ ~closed) =>
                    (allowed' = allowed /\ blocked' = blocked + 1)
              /\ (callerPc'[c] = "idle" /\ closed) =>
                    (allowed' = allowed /\ blocked' = blocked)]_vars

\* at flowRate 10 a DoError call that found two calls allowed and two
\* blocked has been turned away with ErrBlocked
C35_Witness ==
    /\ callsLeft = 0
    /\ flowRate = 10
    /\ allowed = 2
    /\ blocked = 3
    /\ successes = 2
    /\ \E c \in Callers : callerResult[c] = "ErrBlocked"

\* C36: read in one state, the accessors give SuccessRate() = FailureRate()
\* = 0 at flowRate 0; 100 and 0 at a positive flowRate with no outcome; and
\* otherwise FailureRate() = floor(failures * 100 / (failures + successes))
\* and SuccessRate() = 100 - FailureRate().
C36_RateAccessors ==
    LET sr == SuccessRate(flowRate, failures, successes)
        fr == FailureRate(flowRate, failures, successes)
    IN  IF flowRate = 0 THEN sr = 0 /\ fr = 0
        ELSE IF failures = 0 /\ successes = 0 THEN sr = 100 /\ fr = 0
        ELSE /\ fr = (failures * 100) \div (failures + successes)
             /\ sr = 100 - fr

\* whether the product of a and b is an integer of the program's width,
\* decided on magnitudes without forming the product: for m >= 1,
\* |a| * m <= L exactly when |a| <= L \div m, with L = MaxInt64 for a
\* positive product and L = MaxInt64 + 1 for a negative one
ProductFits(a, b) ==
    IF a = 0 \/ b = 0 THEN TRUE
    ELSE IF (a > 0) = (b > 0)
         THEN /\ a # MinInt64 /\ b # MinInt64
              /\ Magnitude(a) <= MaxInt64 \div Magnitude(b)
         ELSE IF a = MinInt64 THEN b = 1
         ELSE IF b = MinInt64 THEN a = 1
         ELSE LET m == Magnitude(b)
                  limit == IF MaxInt64 % m = m - 1 THEN (MaxInt64 \div m) + 1
                           ELSE MaxInt64 \div m
              IN  m = 1 \/ Magnitude(a) <= limit

\* C37: safeMultiply(a, b) is a * b when the product fits the integer
\* width, the largest integer when it does not and is positive, and the
\* smallest when it does not and is negative.
C37_SafeMultiplySaturates ==
    mulPc = "returned" =>
        mulResult = (IF ProductFits(mulA, mulB) THEN mulA * mulB
                     ELSE IF (mulA > 0) = (mulB > 0) THEN MaxInt64
                     ELSE MinInt64)

\* the product of the smallest integer and 3 has been held at the smallest
\* integer
C37_Witness ==
    /\ mulPc = "returned"
    /\ mulA = MinInt64
    /\ mulB = 3
    /\ mulResult = MinInt64

\* the goroutines parked in the receive of Wait
Parked == {w \in Sleepers : waitPc[w] = "recv"}

\* C38: the return of an adjusting calculate() wakes exactly one of the
\* goroutines parked in Wait and leaves the others parked, or changes
\* nothing when none is parked; no other step wakes any; and the loop's
\* steps never wait for a goroutine to be in Wait.
C38_OneWakePerTick ==
    /\ [][/\ TickCompletes =>
                IF Parked = {} THEN waitPc' = waitPc
                ELSE \E w \in Parked : waitPc' = [waitPc EXCEPT ![w] = "returned"]
          /\ ~TickCompletes => waitPc' = waitPc]_vars
    /\ [](/\ loopPc = "calculate" => ENABLED Calculate
          /\ loopPc = "callback" => ENABLED ObserverReturn)

\* two goroutines were parked in Wait; the first tick has woken one of them
\* and the other is still parked
C38_Witness ==
    /\ ticksLeft = MaxTicks - 1
    /\ timeTicker.c = 0
    /\ loopPc = "select"
    /\ Cardinality({w \in Sleepers : waitPc[w] = "returned"}) = 1
    /\ Cardinality(Parked) = Cardinality(Sleepers) - 1

\* C39: once a Close() has returned, no step changes flowRate, state or
\* decreaseBy.
C39_NoAdjustmentAfterClose ==
    [][closeReturned => UNCHANGED <<flowRate, state, decreaseBy>>]_vars

\* C40: decreaseBy <= 128 in every state a fresh nozzle reaches by ticks.
\* The control states with decreaseBy <= 128 contain the fresh nozzle's
\* (flowRate 100, decreaseBy 0) and a tick from any of them, after any
\* outcomes, ends in one of them: a positive step of 2^j stands only at
\* flowRate >= 2^j - 1 or at 100, so the step 128 stands only at 100, where
\* open() returns before doubling it.
C40_OpeningStepBounded ==
    /\ decreaseBy <= 128
    /\ ControlShape(flowRate, decreaseBy, state)

\* an opening tick has taken flowRate from 63 to 100 with the step of 64
\* and left the step at 128, its largest positive value
C40_Witness ==
    /\ loopPc = "callback"
    /\ snapshot.FlowRate = 100
    /\ snapshot.State = Opening
    /\ flowRate = 100
    /\ decreaseBy = 128

====
